---- MODULE Spec2Model ----
(***************************************************************************)
(* The ledger engine of the vehicle passport blockchain                    *)
(* (src/blockchain.py): transactions and their content-derived identity,   *)
(* hash-linked blocks, the pending pool, the VIN index and the queries     *)
(* that fold a vehicle's history into its current state.                   *)
(*                                                                         *)
(* Python objects are references.  Transaction objects live in `heap`; a   *)
(* block's transaction list, the pending pool and the VIN index hold       *)
(* positions of `heap`, so a transaction mutated in place is seen mutated  *)
(* through every list that holds it.                                       *)
(*                                                                         *)
(* A SHA-256 hex digest is modelled by the canonical form it was computed  *)
(* from (Sha256): json.dumps(..., sort_keys=True) of a string-keyed        *)
(* mapping depends on the mapping and not on its insertion order, which is *)
(* what a TLA+ record is, and the digest is taken to be collision free.    *)
(***************************************************************************)
EXTENDS Integers, Sequences, FiniteSets, TLC

\* Bounds of the model: transactions submitted, blocks in the chain.
MaxTx == 2
MaxChain == 3

VARIABLES heap, chain, transactions, vin_index, clock

\* What the callers hold: ret is the outcome of the last call that is followed (the
\* value returned or the exception raised), receipt the value add_transaction
\* returned for each transaction.  sealing is the frame of a create_block that has
\* not returned yet, where its statements are interleaved with other threads.
VARIABLES ret, receipt, sealing

vars == <<heap, chain, transactions, vin_index, clock, ret, receipt, sealing>>

----------------------------------------------------------------------------
\* Values

\* Python's None; an optional value that is present is Some(x).
None == <<>>
Some(x) == <<x>>

\* The outcome of a call: an exception raised or a value returned.
Raise(exception) == [raised |-> exception]
Return(value) == [returned |-> value]
Raised(outcome) == "raised" \in DOMAIN outcome

\* The value a call of the operation op returned.
Returns(op, value) == [op |-> op, returned |-> value]

\* hashlib.sha256(json.dumps(data, sort_keys=True)).hexdigest()
Sha256(data) == <<"sha256", data>>

\* The previous_hash the constructor gives the genesis block.
GenesisPreviousHash == <<"00">>

\* A value that is no digest of the ledger (what an attacker writes).
Forged == <<"ff">>

VINs == {"V1", "V2"}

\* Event kinds with the actor submitting them and their payload.
EmptyPayload == <<>>

Events ==
  { [type |-> "VEHICLE_CREATED", actor_id |-> "manufacturer_1", role |-> "MANUFACTURER",
     payload |-> [make |-> "TestMake", initial_mileage |-> 1]],
    [type |-> "VEHICLE_CREATED", actor_id |-> "dmv_1", role |-> "DMV",
     payload |-> [owner_id |-> "buyer_1"]],
    [type |-> "MILEAGE_UPDATE", actor_id |-> "mechanic_1", role |-> "MECHANIC",
     payload |-> [new_mileage |-> 2]],
    [type |-> "MILEAGE_UPDATE", actor_id |-> "mechanic_1", role |-> "MECHANIC",
     payload |-> [new_mileage |-> 0]],
    [type |-> "SERVICE_RECORD", actor_id |-> "mechanic_1", role |-> "MECHANIC",
     payload |-> [service_type |-> "Oil Change"]],
    [type |-> "ACCIDENT_RECORD", actor_id |-> "insurer_1", role |-> "INSURER",
     payload |-> EmptyPayload],
    [type |-> "OWNERSHIP_TRANSFER", actor_id |-> "manufacturer_1", role |-> "MANUFACTURER",
     payload |-> [new_owner_id |-> "buyer_2"]] }

\* What time() read when a transaction was constructed.
Timestamps == 0..1

\* The nonce a caller passes when sealing.
Nonces == {1}

----------------------------------------------------------------------------
\* Transaction

compute_tx_id(tx) ==
  Sha256([vin |-> tx.vin, type |-> tx.type, actor_id |-> tx.actor_id,
          role |-> tx.role, timestamp |-> tx.timestamp, payload |-> tx.payload])

Transaction(vin, tx_type, actor_id, role, payload, now) ==
  LET tx == [vin |-> vin, type |-> tx_type, actor_id |-> actor_id, role |-> role,
             timestamp |-> now, payload |-> payload, tx_id |-> None,
             signature |-> None]
  IN [tx EXCEPT !.tx_id = compute_tx_id(tx)]

\* tx_dict.get(key) of a dictionary given as a record
dict_get(tx_dict, key) ==
  IF key \in DOMAIN tx_dict THEN tx_dict[key] ELSE None

\* Transaction.from_dict: the constructor runs (at time now), then timestamp,
\* tx_id and signature are taken from the dictionary as they are.
from_dict(tx_dict, now) ==
  [Transaction(tx_dict.vin, tx_dict.type, tx_dict.actor_id, tx_dict.role,
               tx_dict.payload, now)
     EXCEPT !.timestamp = tx_dict.timestamp,
            !.tx_id = dict_get(tx_dict, "tx_id"),
            !.signature = dict_get(tx_dict, "signature")]

tx_to_dict(tx) ==
  [tx_id |-> tx.tx_id, vin |-> tx.vin, type |-> tx.type, actor_id |-> tx.actor_id,
   role |-> tx.role, timestamp |-> tx.timestamp, payload |-> tx.payload,
   signature |-> tx.signature]

\* dict.get(key) and dict.get(key, default) of a payload
payload_get(payload, key) ==
  IF key \in DOMAIN payload THEN Some(payload[key]) ELSE None

payload_get_default(payload, key, default) ==
  IF key \in DOMAIN payload THEN Some(payload[key]) ELSE default

----------------------------------------------------------------------------
\* Block

Block(block_number, txlist, previous_hash, nonce, now) ==
  [block_number |-> block_number, timestamp |-> now, transactions |-> txlist,
   previous_hash |-> previous_hash, nonce |-> nonce, hash |-> None]

\* Mutant of compute_hash: the digest covers each transaction's stored tx_id and
\* not its fields.
compute_hash_tx_ids_only(block, objs) ==
  Sha256([block_number |-> block.block_number,
          timestamp |-> block.timestamp,
          transactions |-> [i \in 1..Len(block.transactions) |->
                              objs[block.transactions[i]].tx_id],
          nonce |-> block.nonce,
          previous_hash |-> block.previous_hash])

\* objs is the heap the block's transaction references are read from.
compute_hash(block, objs) ==
  Sha256([block_number |-> block.block_number,
          timestamp |-> block.timestamp,
          transactions |-> [i \in 1..Len(block.transactions) |->
                              tx_to_dict(objs[block.transactions[i]])],
          nonce |-> block.nonce,
          previous_hash |-> block.previous_hash])

----------------------------------------------------------------------------
\* Blockchain: the VIN index

\* Mutant of index_transaction: the transaction is put in front of the list.
index_transaction_prepend(index, objs, t) ==
  LET key == objs[t].vin
      old == IF key \in DOMAIN index THEN index[key] ELSE <<>>
  IN [v \in DOMAIN index \cup {key} |->
        IF v = key THEN <<t>> \o old ELSE index[v]]

\* self.vin_index[transaction.vin].append(transaction) on a defaultdict(list)
index_transaction(index, objs, t) ==
  LET key == objs[t].vin
      old == IF key \in DOMAIN index THEN index[key] ELSE <<>>
  IN [v \in DOMAIN index \cup {key} |->
        IF v = key THEN Append(old, t) ELSE index[v]]

RECURSIVE index_txlist(_, _, _, _)
index_txlist(index, objs, txlist, n) ==
  IF n = 0 THEN index
  ELSE index_transaction(index_txlist(index, objs, txlist, n - 1), objs, txlist[n])

index_block(index, objs, block) ==
  index_txlist(index, objs, block.transactions, Len(block.transactions))

\* defaultdict(list)
EmptyIndex == <<>>

RECURSIVE index_chain(_, _, _)
index_chain(blocks, objs, n) ==
  IF n = 0 THEN EmptyIndex
  ELSE index_block(index_chain(blocks, objs, n - 1), objs, blocks[n])

\* The blocks 1..n indexed on top of an index that is kept.
RECURSIVE index_chain_onto(_, _, _, _)
index_chain_onto(index, blocks, objs, n) ==
  IF n = 0 THEN index
  ELSE index_block(index_chain_onto(index, blocks, objs, n - 1), objs, blocks[n])

\* Mutant of rebuild_index_from_chain: the index is not replaced by an empty one
\* before the chain is walked.
rebuild_index_from_chain_kept(index, blocks, objs) ==
  LET rebuilt == index_chain_onto(index, blocks, objs, Len(blocks))
  IN [vin_index |-> rebuilt, returned |-> Cardinality(DOMAIN rebuilt)]

\* rebuild_index_from_chain on a ledger whose index is index: the new index and
\* the value returned, len(self.vin_index).
rebuild_index_from_chain(index, blocks, objs) ==
  LET rebuilt == index_chain(blocks, objs, Len(blocks))
  IN [vin_index |-> rebuilt, returned |-> Cardinality(DOMAIN rebuilt)]

----------------------------------------------------------------------------
\* Blockchain: construction and sealing

\* Mutant of create_block: the hash is computed before the pending transactions
\* are attached to the block.
create_block_hash_before_txs(self, objs, nonce, previous_hash, now) ==
  LET block == Block(Len(self.chain) + 1, self.transactions, previous_hash, nonce, now)
      sealed == [block EXCEPT !.hash =
                   compute_hash([block EXCEPT !.transactions = <<>>], objs)]
  IN [chain |-> Append(self.chain, sealed),
      transactions |-> <<>>,
      vin_index |-> index_block(self.vin_index, objs, sealed)]

\* Mutant of create_block: blocks are numbered from 0.
create_block_zero_based(self, objs, nonce, previous_hash, now) ==
  LET block == Block(Len(self.chain), self.transactions, previous_hash, nonce, now)
      sealed == [block EXCEPT !.hash = compute_hash(block, objs)]
  IN [chain |-> Append(self.chain, sealed),
      transactions |-> <<>>,
      vin_index |-> index_block(self.vin_index, objs, sealed)]

\* Mutant of create_block: the block is not indexed.
create_block_no_index(self, objs, nonce, previous_hash, now) ==
  LET block == Block(Len(self.chain) + 1, self.transactions, previous_hash, nonce, now)
      sealed == [block EXCEPT !.hash = compute_hash(block, objs)]
  IN [chain |-> Append(self.chain, sealed),
      transactions |-> <<>>,
      vin_index |-> self.vin_index]

\* Mutant of create_block: the block is put in front of the chain.
create_block_in_front(self, objs, nonce, previous_hash, now) ==
  LET block == Block(Len(self.chain) + 1, self.transactions, previous_hash, nonce, now)
      sealed == [block EXCEPT !.hash = compute_hash(block, objs)]
  IN [chain |-> <<sealed>> \o self.chain,
      transactions |-> <<>>,
      vin_index |-> index_block(self.vin_index, objs, sealed)]

\* Mutant of create_block: the pending pool is not replaced by a new empty list.
create_block_keep_pending(self, objs, nonce, previous_hash, now) ==
  LET block == Block(Len(self.chain) + 1, self.transactions, previous_hash, nonce, now)
      sealed == [block EXCEPT !.hash = compute_hash(block, objs)]
  IN [chain |-> Append(self.chain, sealed),
      transactions |-> self.transactions,
      vin_index |-> index_block(self.vin_index, objs, sealed)]

\* self is the ledger [chain, transactions, vin_index]; now is what time() returns.
create_block(self, objs, nonce, previous_hash, now) ==
  LET block == Block(Len(self.chain) + 1, self.transactions, previous_hash, nonce, now)
      sealed == [block EXCEPT !.hash = compute_hash(block, objs)]
  IN [chain |-> Append(self.chain, sealed),
      transactions |-> <<>>,
      vin_index |-> index_block(self.vin_index, objs, sealed)]

\* Blockchain.__init__
NewBlockchain ==
  create_block([chain |-> <<>>, transactions |-> <<>>, vin_index |-> EmptyIndex],
               <<>>, 0, GenesisPreviousHash, 0)

get_last_block == chain[Len(chain)]

\* Mutant of is_chain_valid: the links are not compared.
is_chain_valid_hash_only ==
  \A i \in 2..Len(chain) : chain[i].hash = compute_hash(chain[i], heap)

is_chain_valid ==
  \A i \in 2..Len(chain) :
    /\ chain[i].hash = compute_hash(chain[i], heap)
    /\ chain[i].previous_hash = chain[i - 1].hash

\* What one call of is_chain_valid gives: the value returned and the line printed
\* (None when nothing is printed).  i is the index of the code, counted from 0, so
\* self.chain[i] is chain[i + 1] here.
Verdict(returned, printed) == [returned |-> returned, printed |-> printed]

Printed(i, problem) == Some([block |-> i, problem |-> problem])

\* Mutant of is_chain_valid_loop: the loop goes on after a failed comparison and
\* reports the last one.
RECURSIVE is_chain_valid_loop_exhaustive(_)
is_chain_valid_loop_exhaustive(i) ==
  IF i >= Len(chain) THEN Verdict(TRUE, None)
  ELSE LET rest == is_chain_valid_loop_exhaustive(i + 1)
       IN IF ~rest.returned THEN rest
          ELSE IF chain[i + 1].hash # compute_hash(chain[i + 1], heap)
          THEN Verdict(FALSE, Printed(i, "hash is invalid"))
          ELSE IF chain[i + 1].previous_hash # chain[i].hash
          THEN Verdict(FALSE, Printed(i, "previous_hash doesn't match"))
          ELSE rest

\* The loop of is_chain_valid from index i on: the hash is compared first, then
\* the link, and the first failed comparison prints and returns False.
RECURSIVE is_chain_valid_loop(_)
is_chain_valid_loop(i) ==
  IF i >= Len(chain) THEN Verdict(TRUE, None)
  ELSE IF chain[i + 1].hash # compute_hash(chain[i + 1], heap)
  THEN Verdict(FALSE, Printed(i, "hash is invalid"))
  ELSE IF chain[i + 1].previous_hash # chain[i].hash
  THEN Verdict(FALSE, Printed(i, "previous_hash doesn't match"))
  ELSE is_chain_valid_loop(i + 1)

\* for i in range(1, len(self.chain))
is_chain_valid_run == is_chain_valid_loop(1)

----------------------------------------------------------------------------
\* Blockchain: queries

\* self.vin_index.get(vin, [])
vin_index_get(vin) == IF vin \in DOMAIN vin_index THEN vin_index[vin] ELSE <<>>

\* Mutant of sorted_rank: of two elements of equal key the later comes first (a
\* sort that is not stable).
sorted_rank_unstable(s, i) ==
  Cardinality({j \in 1..Len(s) :
                 \/ heap[s[j]].timestamp < heap[s[i]].timestamp
                 \/ heap[s[j]].timestamp = heap[s[i]].timestamp /\ j > i}) + 1

\* sorted(..., key=lambda tx: tx.timestamp) is stable.  The place of s[i] in the
\* result: behind the elements of smaller key and the earlier ones of equal key.
sorted_rank(s, i) ==
  Cardinality({j \in 1..Len(s) :
                 \/ heap[s[j]].timestamp < heap[s[i]].timestamp
                 \/ heap[s[j]].timestamp = heap[s[i]].timestamp /\ j < i}) + 1

sorted_by_timestamp(s) ==
  [p \in 1..Len(s) |-> s[CHOOSE i \in 1..Len(s) : sorted_rank(s, i) = p]]

get_vehicle_history(vin) ==
  sorted_by_timestamp(vin_index_get(vin))

\* Mutant of info_step: VEHICLE_CREATED keeps an owner that is already set.
info_step_keeps_owner(info, tx) ==
  IF tx.type = "VEHICLE_CREATED"
  THEN [info EXCEPT !.make = payload_get(tx.payload, "make"),
                    !.model = payload_get(tx.payload, "model"),
                    !.year = payload_get(tx.payload, "year"),
                    !.latest_mileage = payload_get(tx.payload, "initial_mileage"),
                    !.current_owner =
                       IF info.current_owner # None THEN info.current_owner
                       ELSE payload_get_default(tx.payload, "owner_id",
                                                Some(tx.actor_id)),
                    !.created_by = Some(tx.actor_id),
                    !.created_at = Some(tx.timestamp)]
  ELSE IF tx.type = "MILEAGE_UPDATE"
  THEN [info EXCEPT !.latest_mileage = payload_get(tx.payload, "new_mileage")]
  ELSE IF tx.type = "OWNERSHIP_TRANSFER"
  THEN [info EXCEPT !.current_owner = payload_get(tx.payload, "new_owner_id")]
  ELSE info

\* One pass of the loop of get_vehicle_info over a transaction.
info_step(info, tx) ==
  IF tx.type = "VEHICLE_CREATED"
  THEN [info EXCEPT !.make = payload_get(tx.payload, "make"),
                    !.model = payload_get(tx.payload, "model"),
                    !.year = payload_get(tx.payload, "year"),
                    !.latest_mileage = payload_get(tx.payload, "initial_mileage"),
                    !.current_owner =
                       payload_get_default(tx.payload, "owner_id", Some(tx.actor_id)),
                    !.created_by = Some(tx.actor_id),
                    !.created_at = Some(tx.timestamp)]
  ELSE IF tx.type = "MILEAGE_UPDATE"
  THEN [info EXCEPT !.latest_mileage = payload_get(tx.payload, "new_mileage")]
  ELSE IF tx.type = "OWNERSHIP_TRANSFER"
  THEN [info EXCEPT !.current_owner = payload_get(tx.payload, "new_owner_id")]
  ELSE info

RECURSIVE info_loop(_, _, _)
info_loop(info, history, n) ==
  IF n = 0 THEN info
  ELSE info_step(info_loop(info, history, n - 1), heap[history[n]])

\* Mutant of get_vehicle_info: the empty history is not tested for.
get_vehicle_info_unguarded(vin) ==
  LET history == get_vehicle_history(vin)
      info == [vin |-> vin, make |-> None, model |-> None, year |-> None,
               current_owner |-> None, latest_mileage |-> None,
               created_by |-> None, created_at |-> None,
               total_transactions |-> Len(history)]
  IN info_loop(info, history, Len(history))

get_vehicle_info(vin) ==
  LET history == get_vehicle_history(vin)
      info == [vin |-> vin, make |-> None, model |-> None, year |-> None,
               current_owner |-> None, latest_mileage |-> None,
               created_by |-> None, created_at |-> None,
               total_transactions |-> Len(history)]
  IN IF history = <<>> THEN None ELSE info_loop(info, history, Len(history))

\* Mutant of mileage_step: the payload is read with dict.get, as get_vehicle_info
\* reads it, so a payload without the key resets the mileage to None.
mileage_step_get(mileage, tx) ==
  IF tx.type = "VEHICLE_CREATED"
  THEN payload_get(tx.payload, "initial_mileage")
  ELSE IF tx.type = "MILEAGE_UPDATE"
  THEN payload_get(tx.payload, "new_mileage")
  ELSE mileage

\* Mutant of mileage_step: a value below the one held is not taken.
mileage_step_no_rollback(mileage, tx) ==
  LET carried ==
        IF tx.type = "VEHICLE_CREATED" /\ "initial_mileage" \in DOMAIN tx.payload
        THEN Some(tx.payload["initial_mileage"])
        ELSE IF tx.type = "MILEAGE_UPDATE" /\ "new_mileage" \in DOMAIN tx.payload
        THEN Some(tx.payload["new_mileage"])
        ELSE mileage
  IN IF mileage # None /\ carried[1] < mileage[1] THEN mileage ELSE carried

\* One pass of the loop of get_latest_mileage over a transaction.
mileage_step(mileage, tx) ==
  IF tx.type = "VEHICLE_CREATED" /\ "initial_mileage" \in DOMAIN tx.payload
  THEN Some(tx.payload["initial_mileage"])
  ELSE IF tx.type = "MILEAGE_UPDATE" /\ "new_mileage" \in DOMAIN tx.payload
  THEN Some(tx.payload["new_mileage"])
  ELSE mileage

RECURSIVE mileage_loop(_, _)
mileage_loop(history, n) ==
  IF n = 0 THEN None
  ELSE mileage_step(mileage_loop(history, n - 1), heap[history[n]])

get_latest_mileage(vin) ==
  LET history == get_vehicle_history(vin)
  IN mileage_loop(history, Len(history))

vehicle_exists(vin) == vin \in DOMAIN vin_index /\ Len(vin_index[vin]) > 0

----------------------------------------------------------------------------
\* Initial state and operations

\* No create_block is under way.
NotSealing == <<>>

Init ==
  /\ heap = <<>>
  /\ clock = 0
  /\ chain = NewBlockchain.chain
  /\ transactions = NewBlockchain.transactions
  /\ vin_index = NewBlockchain.vin_index
  /\ ret = None
  /\ receipt = <<>>
  /\ sealing = NotSealing

\* A call made to completion by a single thread, its outcome not followed.
Alone == UNCHANGED <<ret, receipt, sealing>>

Max(a, b) == IF a >= b THEN a ELSE b

\* add_transaction(Transaction(vin, type, actor_id, role, payload)): the object was
\* constructed when time() read ts, now or earlier; it is new on the heap and is
\* appended to the pending pool.
AddTransaction(vin, ev, ts) ==
  /\ Len(heap) < MaxTx
  /\ heap' = Append(heap, Transaction(vin, ev.type, ev.actor_id, ev.role,
                                      ev.payload, ts))
  /\ transactions' = Append(transactions, Len(heap) + 1)
  /\ clock' = Max(clock, ts)
  /\ UNCHANGED <<chain, vin_index>>

\* create_block(nonce, previous_hash): the caller supplies the link.  The block is
\* stamped with time(): the latest reading, no time having passed.
CreateBlock(nonce, previous_hash) ==
  /\ Len(chain) < MaxChain
  /\ LET bc == create_block([chain |-> chain, transactions |-> transactions,
                             vin_index |-> vin_index],
                            heap, nonce, previous_hash, clock)
     IN /\ chain' = bc.chain
        /\ transactions' = bc.transactions
        /\ vin_index' = bc.vin_index
  /\ UNCHANGED <<heap, clock>>

\* Sealing as the callers do it:
\* create_block(nonce=1, previous_hash=self.bc.get_last_block().hash)
SealBlock(nonce) == CreateBlock(nonce, get_last_block.hash)

RebuildIndex ==
  /\ vin_index' = rebuild_index_from_chain(vin_index, chain, heap).vin_index
  /\ UNCHANGED <<heap, chain, transactions, clock>>

\* Mutant of add_transaction_returns: the length of the chain.
add_transaction_returns_length == Len(chain)

\* return len(self.chain) + 1
add_transaction_returns == Len(chain) + 1

\* The operations of the ledger, with transactions drawn from the events evs.
Operations(evs) ==
  \/ \E vin \in VINs, ev \in evs, ts \in Timestamps :
       AddTransaction(vin, ev, ts) /\ Alone
  \/ \E nonce \in Nonces : SealBlock(nonce) /\ Alone
  \/ RebuildIndex /\ Alone

Next == Operations(Events)

Spec == Init /\ [][Next]_vars

----------------------------------------------------------------------------
\* Tampering: the ledger's objects are plain mutable Python objects, and an
\* attacker (the test's "TAMPERING ATTACK") rewrites a sealed one in place.

\* The transactions held by the blocks of the chain.
SealedTxs ==
  UNION {{chain[b].transactions[i] : i \in 1..Len(chain[b].transactions)} :
           b \in 1..Len(chain)}

TxFields ==
  {"vin", "type", "actor_id", "role", "timestamp", "payload", "tx_id", "signature"}

\* The values the attacker writes into a field.
TamperValues(f) ==
  CASE f = "vin" -> {"HACKED-VIN"}
    [] f = "type" -> {"SERVICE_RECORD"}
    [] f = "actor_id" -> {"buyer_1"}
    [] f = "role" -> {"BUYER"}
    [] f = "timestamp" -> Timestamps
    [] f = "payload" -> {EmptyPayload}
    [] f = "tx_id" -> {Forged}
    [] f = "signature" -> {Forged}

\* The ledger is as add_transaction and create_block built it: no stored value
\* has been rewritten.
Pristine ==
  /\ is_chain_valid
  /\ chain[1].previous_hash = GenesisPreviousHash
  /\ chain[1].hash = compute_hash(chain[1], heap)
  /\ \A t \in 1..Len(heap) :
       heap[t].tx_id = compute_tx_id(heap[t]) /\ heap[t].signature = None

\* self.bc.chain[b].transactions[i].<f> = value; the block's stored hash is left
\* as it is.
TamperTransaction(t, f, value) ==
  /\ t \in SealedTxs
  /\ value # heap[t][f]
  /\ heap' = [heap EXCEPT ![t] = [@ EXCEPT ![f] = value]]
  /\ UNCHANGED <<chain, transactions, vin_index, clock>>

\* The previous_hash that block b was sealed with by a caller of SealBlock.
CorrectPreviousHash(b) ==
  IF b = 1 THEN GenesisPreviousHash ELSE chain[b - 1].hash

\* self.bc.chain[b].previous_hash = value; with rehash the attacker also stores
\* the block's recomputed hash.
TamperLink(b, value, rehash) ==
  /\ b \in 1..Len(chain)
  /\ value # CorrectPreviousHash(b)
  /\ LET relinked == [chain[b] EXCEPT !.previous_hash = value]
     IN chain' = [chain EXCEPT ![b] =
                    IF rehash
                    THEN [relinked EXCEPT !.hash = compute_hash(relinked, heap)]
                    ELSE relinked]
  /\ UNCHANGED <<heap, transactions, vin_index, clock>>

\* What the attacker writes as a previous_hash: a forged digest, the sentinel, or
\* the digest of the last block.
LinkValues == {Forged, GenesisPreviousHash, get_last_block.hash}

\* The events of the ledgers that are tampered with.
TamperedEvents ==
  {ev \in Events : /\ ev.type \in {"VEHICLE_CREATED", "MILEAGE_UPDATE"}
                   /\ ev.actor_id \in {"manufacturer_1", "mechanic_1"}
                   /\ ev.payload # [new_mileage |-> 0]}

\* The attack is made once, on a ledger as built.
NextTamper ==
  \/ Operations(TamperedEvents)
  \/ /\ Pristine
     /\ \E t \in 1..Len(heap), f \in TxFields :
          \E value \in TamperValues(f) : TamperTransaction(t, f, value)
     /\ Alone
  \/ /\ Pristine
     /\ \E b \in 1..Len(chain), value \in LinkValues, rehash \in BOOLEAN :
          TamperLink(b, value, rehash)
     /\ Alone

SpecTamper == Init /\ [][NextTamper]_vars

----------------------------------------------------------------------------
\* Callers that pass create_block a previous_hash of their own.

\* What a caller passes as previous_hash: the hash of the last block, or another
\* value.
CallerLinks == {get_last_block.hash, GenesisPreviousHash, Forged}

NextAnyLink ==
  \/ \E vin \in VINs, ev \in TamperedEvents, ts \in Timestamps :
       AddTransaction(vin, ev, ts) /\ Alone
  \/ \E nonce \in Nonces, previous_hash \in CallerLinks :
       CreateBlock(nonce, previous_hash) /\ Alone
  \/ RebuildIndex /\ Alone

SpecAnyLink == Init /\ [][NextAnyLink]_vars

----------------------------------------------------------------------------
\* The admission layer in front of the ledger: a MILEAGE_UPDATE is submitted only
\* if its new_mileage is not less than get_latest_mileage(vin) read at that time.

admission_allows(vin, ev) ==
  (/\ ev.type = "MILEAGE_UPDATE"
   /\ "new_mileage" \in DOMAIN ev.payload
   /\ get_latest_mileage(vin) # None)
  => ev.payload["new_mileage"] >= get_latest_mileage(vin)[1]

SubmitAdmitted(vin, ev, ts) ==
  /\ admission_allows(vin, ev)
  /\ AddTransaction(vin, ev, ts)

\* The events that carry or may carry a mileage, and one that does not.
MileageEvents ==
  {ev \in Events :
     ev.type \in {"VEHICLE_CREATED", "MILEAGE_UPDATE", "SERVICE_RECORD"}}

NextAdmit ==
  \/ \E vin \in VINs, ev \in MileageEvents, ts \in Timestamps :
       SubmitAdmitted(vin, ev, ts) /\ Alone
  \/ \E nonce \in Nonces : SealBlock(nonce) /\ Alone
  \/ RebuildIndex /\ Alone

SpecAdmit == Init /\ [][NextAdmit]_vars

----------------------------------------------------------------------------
\* Calls whose outcome the caller follows: what each operation returns.

\* add_transaction(Transaction(...)); the caller keeps the block number returned.
CallAddTransaction(vin, ev, ts) ==
  /\ AddTransaction(vin, ev, ts)
  /\ ret' = Returns("add_transaction", add_transaction_returns)
  /\ receipt' = Append(receipt, add_transaction_returns)
  /\ UNCHANGED sealing

\* create_block(nonce, get_last_block().hash) returns the block.
CallCreateBlock(nonce) ==
  /\ SealBlock(nonce)
  /\ ret' = Returns("create_block", chain'[Len(chain')])
  /\ UNCHANGED <<receipt, sealing>>

\* rebuild_index_from_chain() returns the number of keys of the index.
CallRebuildIndex ==
  /\ RebuildIndex
  /\ ret' = Returns("rebuild_index_from_chain",
                    rebuild_index_from_chain(vin_index, chain, heap).returned)
  /\ UNCHANGED <<receipt, sealing>>

\* The calls that read the ledger and leave it as it is.
Reads(op, value) ==
  /\ ret' = Returns(op, value)
  /\ UNCHANGED <<heap, chain, transactions, vin_index, clock, receipt, sealing>>

CallIsChainValid == Reads("is_chain_valid", is_chain_valid)

CallGetVehicleHistory(vin) ==
  Reads("get_vehicle_history", [vin |-> vin, history |-> get_vehicle_history(vin)])

CallGetVehicleInfo(vin) ==
  Reads("get_vehicle_info", [vin |-> vin, info |-> get_vehicle_info(vin)])

CallGetLatestMileage(vin) ==
  Reads("get_latest_mileage", [vin |-> vin, mileage |-> get_latest_mileage(vin)])

CallVehicleExists(vin) ==
  Reads("vehicle_exists", [vin |-> vin, exists |-> vehicle_exists(vin)])

\* The vehicle_ids asked about: the ones in use and one no transaction carries.
QueriedVins == VINs \cup {"UNKNOWN"}

NextCalls ==
  \/ \E vin \in VINs, ev \in TamperedEvents, ts \in Timestamps :
       CallAddTransaction(vin, ev, ts)
  \/ \E nonce \in Nonces : CallCreateBlock(nonce)
  \/ CallRebuildIndex
  \/ CallIsChainValid
  \/ \E vin \in QueriedVins : CallGetVehicleHistory(vin)
  \/ \E vin \in QueriedVins : CallGetVehicleInfo(vin)
  \/ \E vin \in QueriedVins : CallGetLatestMileage(vin)
  \/ \E vin \in QueriedVins : CallVehicleExists(vin)

SpecCalls == Init /\ [][NextCalls]_vars

----------------------------------------------------------------------------
\* Threads: the ledger takes no lock, so the statements of a create_block are
\* interleaved with the add_transaction calls and the reads of other threads.
\* One statement is one step.  Until create_block rebinds self.transactions, the
\* block under construction holds the pool's list object itself: what is appended
\* to the pool is appended to the block.

\* block = Block(len(self.chain) + 1, self.transactions, previous_hash, nonce)
BeginCreateBlock(nonce, previous_hash) ==
  /\ sealing = NotSealing
  /\ Len(chain) < MaxChain
  /\ sealing' = [pc |-> "hash", k |-> 1,
                 block |-> Block(Len(chain) + 1, <<>>, previous_hash, nonce, clock)]
  /\ UNCHANGED <<heap, chain, transactions, vin_index, clock, ret, receipt>>

\* block.hash = block.compute_hash(), over the list as it is now
HashBlock ==
  /\ sealing # NotSealing
  /\ sealing.pc = "hash"
  /\ sealing' = [sealing EXCEPT
                   !.pc = "index",
                   !.block.hash =
                      compute_hash([sealing.block EXCEPT !.transactions = transactions],
                                   heap)]
  /\ UNCHANGED <<heap, chain, transactions, vin_index, clock, ret, receipt>>

\* One pass of the loop of _index_block: the next element of the list, if any.
IndexNext ==
  /\ sealing # NotSealing
  /\ sealing.pc = "index"
  /\ sealing.k <= Len(transactions)
  /\ vin_index' = index_transaction(vin_index, heap, transactions[sealing.k])
  /\ sealing' = [sealing EXCEPT !.k = @ + 1]
  /\ UNCHANGED <<heap, chain, transactions, clock, ret, receipt>>

\* The loop of _index_block finds the list exhausted.
IndexDone ==
  /\ sealing # NotSealing
  /\ sealing.pc = "index"
  /\ sealing.k > Len(transactions)
  /\ sealing' = [sealing EXCEPT !.pc = "clear"]
  /\ UNCHANGED <<heap, chain, transactions, vin_index, clock, ret, receipt>>

\* self.transactions = []: the block keeps the list, the pool is a new one.
ClearPool ==
  /\ sealing # NotSealing
  /\ sealing.pc = "clear"
  /\ sealing' = [sealing EXCEPT !.pc = "append", !.block.transactions = transactions]
  /\ transactions' = <<>>
  /\ UNCHANGED <<heap, chain, vin_index, clock, ret, receipt>>

\* self.chain.append(block); return block
AppendBlock ==
  /\ sealing # NotSealing
  /\ sealing.pc = "append"
  /\ chain' = Append(chain, sealing.block)
  /\ sealing' = NotSealing
  /\ UNCHANGED <<heap, transactions, vin_index, clock, ret, receipt>>

\* add_transaction in another thread, at any point of a create_block.
SubmitConcurrently(vin, ev, ts) ==
  /\ AddTransaction(vin, ev, ts)
  /\ UNCHANGED <<ret, receipt, sealing>>

NextThreads ==
  \/ \E vin \in VINs, ev \in TamperedEvents, ts \in Timestamps :
       SubmitConcurrently(vin, ev, ts)
  \/ \E nonce \in Nonces : BeginCreateBlock(nonce, get_last_block.hash)
  \/ HashBlock
  \/ IndexNext
  \/ IndexDone
  \/ ClearPool
  \/ AppendBlock

SpecThreads == Init /\ [][NextThreads]_vars

----------------------------------------------------------------------------
\* Users, permissions and signing (src/users.py, src/crypto_utils.py)

\* Role definitions and permissions
ROLES ==
  [MANUFACTURER |-> {"VEHICLE_CREATED", "OWNERSHIP_TRANSFER"},
   DMV |-> {"VEHICLE_CREATED", "OWNERSHIP_TRANSFER"},
   MECHANIC |-> {"MILEAGE_UPDATE", "SERVICE_RECORD"},
   INSURER |-> {"ACCIDENT_RECORD"},
   BUYER |-> {}]

\* The user registry as initialize_users() fills it: user_id -> role.
USERS ==
  [user_id \in {"manufacturer_1", "manufacturer_2", "dmv_1", "dmv_2",
                "mechanic_1", "mechanic_2", "mechanic_3", "insurer_1",
                "insurer_2", "buyer_1", "buyer_2", "buyer_3"} |->
     CASE user_id \in {"manufacturer_1", "manufacturer_2"} -> "MANUFACTURER"
       [] user_id \in {"dmv_1", "dmv_2"} -> "DMV"
       [] user_id \in {"mechanic_1", "mechanic_2", "mechanic_3"} -> "MECHANIC"
       [] user_id \in {"insurer_1", "insurer_2"} -> "INSURER"
       [] user_id \in {"buyer_1", "buyer_2", "buyer_3"} -> "BUYER"]

\* The key pair generate_keypair() gave the user.
private_key(user_id) == <<"key", user_id>>

\* USERS.get(user_id)
get_user(user_id) ==
  IF user_id \in DOMAIN USERS
  THEN Some([user_id |-> user_id, role |-> USERS[user_id],
             private_key |-> private_key(user_id)])
  ELSE None

\* Mutant of can_user_create_transaction: every registered user is allowed.
can_user_create_transaction_any_type(user_id, transaction_type) ==
  get_user(user_id) # None

can_user_create_transaction(user_id, transaction_type) ==
  LET user == get_user(user_id)
  IN IF user = None THEN FALSE
     ELSE LET allowed_types ==
                IF user[1].role \in DOMAIN ROLES THEN ROLES[user[1].role] ELSE {}
          IN transaction_type \in allowed_types

\* The PKCS#1 v1.5 signature of the digest of tx_id under the key.
Signature(key, tx_id) == <<"signature", key, tx_id>>

\* sign_transaction modifies the transaction in place: the outcome is the
\* exception or the transaction as modified.
sign_transaction(transaction, key) ==
  IF transaction.tx_id = None
  THEN Raise("ValueError")
  ELSE Return([transaction EXCEPT !.signature = Signature(key, transaction.tx_id)])

create_and_sign_transaction(user_id, vin, tx_type, payload, now) ==
  LET user == get_user(user_id)
  IN IF user = None
     THEN Raise("ValueError")
     ELSE IF ~can_user_create_transaction(user_id, tx_type)
     THEN Raise("PermissionError")
     ELSE LET transaction == Transaction(vin, tx_type, user_id, user[1].role,
                                         payload, now)
              signed == sign_transaction(transaction, user[1].private_key)
          IN IF Raised(signed) THEN signed ELSE Return(signed.returned)

\* Who asks: a user of each role and one that is not registered.
Actors ==
  {"manufacturer_1", "dmv_1", "mechanic_1", "insurer_1", "buyer_1", "intruder"}

\* What is asked for: the five event types and one that is none of them.
TxTypes ==
  {"VEHICLE_CREATED", "MILEAGE_UPDATE", "SERVICE_RECORD", "ACCIDENT_RECORD",
   "OWNERSHIP_TRANSFER", "TEST"}

\* The payload sent with a request of the type.
PayloadOf(tx_type) ==
  CASE tx_type = "VEHICLE_CREATED" -> [make |-> "TestMake", initial_mileage |-> 1]
    [] tx_type = "MILEAGE_UPDATE" -> [new_mileage |-> 2]
    [] tx_type = "SERVICE_RECORD" -> [service_type |-> "Oil Change"]
    [] tx_type = "OWNERSHIP_TRANSFER" -> [new_owner_id |-> "buyer_2"]
    [] OTHER -> EmptyPayload

\* create_and_sign_transaction(user_id, vin, tx_type, payload): the caller holds
\* the outcome; a transaction returned is a new object.
CreateAndSign(user_id, vin, tx_type, ts) ==
  /\ Len(heap) < MaxTx
  /\ LET outcome == create_and_sign_transaction(user_id, vin, tx_type,
                                                PayloadOf(tx_type), ts)
     IN IF Raised(outcome)
        THEN /\ ret' = outcome
             /\ UNCHANGED <<heap, clock>>
        ELSE /\ heap' = Append(heap, outcome.returned)
             /\ ret' = Return(Len(heap) + 1)
             /\ clock' = Max(clock, ts)
  /\ UNCHANGED <<chain, transactions, vin_index, receipt, sealing>>

\* The transactions that are in the pool or in a block.
Submitted ==
  {transactions[i] : i \in 1..Len(transactions)} \cup SealedTxs

\* add_transaction(transaction) of a transaction object that exists.
SubmitTransaction(t) ==
  /\ t \in 1..Len(heap)
  /\ t \notin Submitted
  /\ transactions' = Append(transactions, t)
  /\ UNCHANGED <<heap, chain, vin_index, clock, ret, receipt, sealing>>

\* The caller of create_and_sign_transaction submits what it returned.
SubmitReturned ==
  /\ ret # None
  /\ ~Raised(ret)
  /\ SubmitTransaction(ret.returned)

\* The vehicle the requests are about.
RequestVin == "V1"

\* The dictionaries handed to from_dict: the exported form of a transaction,
\* also without its tx_id and with or without a signature.
TxDicts ==
  LET whole == {tx_to_dict(Transaction(RequestVin, ev.type, ev.actor_id, ev.role,
                                       ev.payload, ts)) :
                  ev \in TamperedEvents, ts \in Timestamps}
      unsigned == {[key \in DOMAIN d \ {"signature"} |-> d[key]] : d \in whole}
      foreign == {[d EXCEPT !.signature = Forged] : d \in whole}
      unidentified == {[key \in DOMAIN d \ {"tx_id"} |-> d[key]] :
                         d \in unsigned \cup foreign}
  IN unsigned \cup foreign \cup unidentified

\* Transaction.from_dict(tx_dict): a new object.
FromDict(tx_dict) ==
  /\ Len(heap) < MaxTx
  /\ heap' = Append(heap, from_dict(tx_dict, clock))
  /\ UNCHANGED <<chain, transactions, vin_index, clock, ret, receipt, sealing>>

\* Whose keys sign.
Signers == {"manufacturer_1", "mechanic_1"}

\* sign_transaction(transaction, private_key) on a transaction that is not in the
\* ledger yet; the caller holds the outcome (the call returns None).
SignTransaction(t, user_id) ==
  /\ t \in 1..Len(heap)
  /\ t \notin Submitted
  /\ LET outcome == sign_transaction(heap[t], private_key(user_id))
     IN IF Raised(outcome)
        THEN ret' = outcome /\ heap' = heap
        ELSE ret' = Return(None) /\ heap' = [heap EXCEPT ![t] = outcome.returned]
  /\ UNCHANGED <<chain, transactions, vin_index, clock, receipt, sealing>>

NextSigning ==
  \/ \E tx_dict \in TxDicts : FromDict(tx_dict)
  \/ \E t \in 1..Len(heap), user_id \in Signers : SignTransaction(t, user_id)
  \/ \E t \in 1..Len(heap) : SubmitTransaction(t)
  \/ \E nonce \in Nonces : SealBlock(nonce) /\ Alone

SpecSigning == Init /\ [][NextSigning]_vars

NextUsers ==
  \/ \E user_id \in Actors, tx_type \in TxTypes :
       CreateAndSign(user_id, RequestVin, tx_type, clock)
  \/ SubmitReturned
  \/ \E nonce \in Nonces : SealBlock(nonce) /\ Alone

SpecUsers == Init /\ [][NextUsers]_vars

----------------------------------------------------------------------------
\* Properties

\* The transactions of the blocks 1..n of the chain, in chain order and, within a
\* block, in the block's order.
RECURSIVE chain_txs(_)
chain_txs(n) ==
  IF n = 0 THEN <<>> ELSE chain_txs(n - 1) \o chain[n].transactions

\* The sealed transactions of a vehicle, in chain order.
SealedOf(vin) ==
  LET all == chain_txs(Len(chain))
      sel(s) == heap[s].vin = vin
  IN SelectSeq(all, sel)

\* Every vehicle_id in use: the ones submitted and the keys of the index.
KnownVins == VINs \cup DOMAIN vin_index \cup {heap[t].vin : t \in 1..Len(heap)}

\* Some field of transaction t is not what its constructor stored.
Rewritten(t) ==
  heap[t].tx_id # compute_tx_id(heap[t]) \/ heap[t].signature # None

\* C1 (tamper detection): on a ledger built by add_transaction and create_block,
\* rewriting any one field (vin, type, actor_id, role, timestamp, payload, tx_id,
\* signature) of a transaction held by a block, the block's stored hash left as it
\* is, leaves a chain that is_chain_valid rejects.  (heap' # heap follows from the
\* rewriting; it is put first as the cheap test.)
TamperDetection ==
  [][(/\ heap' # heap
      /\ Pristine
      /\ \E t \in 1..Len(heap), f \in TxFields :
           \E value \in TamperValues(f) : TamperTransaction(t, f, value))
     => ~is_chain_valid']_vars

\* C1 witness: a sealed transaction's vin has been rewritten, as in
\* test_chain_validity, and the chain is rejected.
TamperDetectionWitness ==
  \E t \in SealedTxs : heap[t].vin = "HACKED-VIN" /\ ~is_chain_valid

\* Every block after the genesis was created with the hash of the block before it.
LinkedByCallers ==
  \A i \in 2..Len(chain) : chain[i].previous_hash = chain[i - 1].hash

VinIndexInvariant ==
  /\ \A vin \in KnownVins : vin_index_get(vin) = SealedOf(vin)
  /\ \A i \in 1..Len(transactions) : \A vin \in KnownVins :
       \A k \in 1..Len(vin_index_get(vin)) : vin_index_get(vin)[k] # transactions[i]

\* C3 witness: a vehicle with one sealed, indexed transaction and one pending.
VinIndexInvariantWitness ==
  \E vin \in VINs :
    /\ Len(vin_index_get(vin)) = 1
    /\ \E i \in 1..Len(transactions) : heap[transactions[i]].vin = vin

\* C4 (pool/seal atomicity): a step that changes the chain appends one block that
\* holds exactly the pending pool, in its order, and empties the pool; any other
\* step leaves the pool or appends one new transaction at its end, so the pool is
\* the submissions since the last sealing, in submission order.
PoolSealAtomicity ==
  [][IF chain' # chain
     THEN /\ Len(chain') = Len(chain) + 1
          /\ SubSeq(chain', 1, Len(chain)) = chain
          /\ chain'[Len(chain')].transactions = transactions
          /\ transactions' = <<>>
     ELSE \/ transactions' = transactions
          \/ /\ Len(heap') = Len(heap) + 1
             /\ transactions' = Append(transactions, Len(heap'))]_vars

\* C4 witness: two submissions sealed into one block, the pool empty again.
PoolSealAtomicityWitness ==
  /\ Len(chain) >= 2
  /\ chain[Len(chain)].transactions = <<1, 2>>
  /\ transactions = <<>>

\* The mileage of an optional value that is present.
Value(opt) == opt[1]

\* The pending pool holds a VEHICLE_CREATED of the vehicle whose initial_mileage
\* is below m.
PendingCreatedBelow(vin, m) ==
  \E i \in 1..Len(transactions) :
    LET tx == heap[transactions[i]]
    IN /\ tx.vin = vin
       /\ tx.type = "VEHICLE_CREATED"
       /\ "initial_mileage" \in DOMAIN tx.payload
       /\ tx.payload["initial_mileage"] < m

IndexedUnderOwnVin ==
  \A vin \in DOMAIN vin_index :
    \A k \in 1..Len(vin_index[vin]) : heap[vin_index[vin][k]].vin = vin

\* C6 as claimed: in any chain state, one with a sealed transaction rewritten in
\* place included, rebuilding the index leaves get_vehicle_history(v) of every
\* vehicle_id as it was.  (A rebuild that leaves the index as it was leaves the
\* histories as they were; vin_index' # vin_index is put first as the cheap test.)
RebuildKeepsHistory ==
  [][(vin_index' # vin_index /\ RebuildIndex) =>
       \A vin \in KnownVins : get_vehicle_history(vin)' = get_vehicle_history(vin)]_vars

\* C6 as amended: in any chain state in which no sealed transaction's vin was
\* rewritten after it was indexed (any other field may have been), rebuilding the
\* index leaves get_vehicle_history(v) of every vehicle_id as it was.
RebuildKeepsHistoryOfKeptVins ==
  [][(vin_index' # vin_index /\ RebuildIndex /\ IndexedUnderOwnVin) =>
       \A vin \in KnownVins : get_vehicle_history(vin)' = get_vehicle_history(vin)]_vars

\* C6 witness: a sealed transaction was rewritten in a field other than vin, and
\* the index is the one a rebuild gives.
RebuildKeepsHistoryWitness ==
  /\ \E t \in SealedTxs : Rewritten(t)
  /\ IndexedUnderOwnVin
  /\ \E vin \in VINs : Len(get_vehicle_history(vin)) = 2
  /\ vin_index = index_chain(chain, heap, Len(chain))

\* C7 as claimed: on a ledger as built, giving any block, the genesis included, a
\* previous_hash other than the one it was created with leaves a chain that
\* is_chain_valid rejects, whether or not the block's hash is recomputed.
\* (chain' # chain follows from the relinking; it is put first as the cheap test.)
LinkIntegrityAnyBlock ==
  [][(/\ chain' # chain
      /\ Pristine
      /\ \E b \in 1..Len(chain), value \in LinkValues, rehash \in BOOLEAN :
           TamperLink(b, value, rehash))
     => ~is_chain_valid']_vars

\* C7 as amended: the same for any block after the genesis; is_chain_valid reads
\* neither the previous_hash nor the hash check of the genesis block.
LinkIntegrityAfterGenesis ==
  [][(/\ chain' # chain
      /\ Pristine
      /\ \E b \in 2..Len(chain), value \in LinkValues, rehash \in BOOLEAN :
           TamperLink(b, value, rehash))
     => ~is_chain_valid']_vars

\* C7 witness: a block after the genesis carries a wrong previous_hash and a hash
\* recomputed to match, and the chain is rejected.
LinkIntegrityWitness ==
  \E b \in 2..Len(chain) :
    /\ chain[b].previous_hash # chain[b - 1].hash
    /\ chain[b].hash = compute_hash(chain[b], heap)
    /\ ~is_chain_valid

\* The ledger as Blockchain() leaves it.
FreshLedger ==
  /\ Len(chain) = 1
  /\ chain[1].block_number = 1
  /\ chain[1].transactions = <<>>
  /\ chain[1].nonce = 0
  /\ chain[1].previous_hash = GenesisPreviousHash
  /\ transactions = <<>>
  /\ is_chain_valid

\* C8 (genesis invariant): a freshly constructed ledger has a chain of one block
\* with block_number 1, no transactions, nonce 0 and previous_hash '00', an empty
\* pending pool and a valid chain; the operations leave the genesis block alone.
GenesisInvariant == FreshLedger /\ [][chain'[1] = chain[1]]_vars

\* C8 witness: the ledger before any operation.
GenesisInvariantWitness ==
  heap = <<>> /\ Len(chain) = 1 /\ transactions = <<>> /\ vin_index = EmptyIndex

\* The place of transaction t in the sequence s.
Place(s, t) == CHOOSE k \in 1..Len(s) : s[k] = t

\* C9 (history ordering): get_vehicle_history(v) holds exactly the sealed
\* transactions of v, by ascending timestamp, those of equal timestamp in chain
\* order.
HistoryOrdering ==
  \A vin \in KnownVins :
    LET h == get_vehicle_history(vin)
        s == SealedOf(vin)
    IN /\ Len(h) = Len(s)
       /\ {h[i] : i \in 1..Len(h)} = {s[i] : i \in 1..Len(s)}
       /\ \A i, j \in 1..Len(h) :
            i < j =>
              /\ heap[h[i]].timestamp <= heap[h[j]].timestamp
              /\ heap[h[i]].timestamp = heap[h[j]].timestamp =>
                   Place(s, h[i]) < Place(s, h[j])

\* C9 witness: a vehicle whose history is not in chain order, the transaction
\* sealed later carrying the earlier timestamp.
HistoryOrderingWitness ==
  \E vin \in VINs :
    /\ Len(SealedOf(vin)) = 2
    /\ get_vehicle_history(vin) = <<SealedOf(vin)[2], SealedOf(vin)[1]>>

\* The greatest element of a non-empty set of numbers.
Greatest(S) == CHOOSE x \in S : \A y \in S : y <= x

\* The owner a history h gives, read off h without folding it: the new_owner_id
\* of the last OWNERSHIP_TRANSFER behind the last VEHICLE_CREATED (of the last
\* one at all if nothing was created), else the owner_id of that VEHICLE_CREATED,
\* else its actor_id.
OwnerOf(h) ==
  LET created == {i \in 1..Len(h) : heap[h[i]].type = "VEHICLE_CREATED"}
      c == IF created = {} THEN 0 ELSE Greatest(created)
      transfers == {i \in (c + 1)..Len(h) : heap[h[i]].type = "OWNERSHIP_TRANSFER"}
  IN IF transfers # {}
     THEN payload_get(heap[h[Greatest(transfers)]].payload, "new_owner_id")
     ELSE IF c = 0 THEN None
     ELSE IF "owner_id" \in DOMAIN heap[h[c]].payload
     THEN Some(heap[h[c]].payload["owner_id"])
     ELSE Some(heap[h[c]].actor_id)

\* The history without its SERVICE_RECORD and ACCIDENT_RECORD transactions.
WithoutRecords(h) ==
  LET keep(t) == heap[t].type \notin {"SERVICE_RECORD", "ACCIDENT_RECORD"}
  IN SelectSeq(h, keep)

\* The state the loop of get_vehicle_info derives from a history.
Derived(h) ==
  info_loop([vin |-> None, make |-> None, model |-> None, year |-> None,
             current_owner |-> None, latest_mileage |-> None,
             created_by |-> None, created_at |-> None,
             total_transactions |-> 0], h, Len(h))

\* C10 (state fold): for a vehicle with a history, get_vehicle_info gives as
\* current_owner the owner read off the history (OwnerOf), counts every
\* transaction of the history in total_transactions, and derives the same fields
\* as from the history without its SERVICE_RECORDs and ACCIDENT_RECORDs.
StateFold ==
  \A vin \in KnownVins :
    LET h == get_vehicle_history(vin)
        info == get_vehicle_info(vin)
    IN h # <<>> =>
         /\ info.current_owner = OwnerOf(h)
         /\ info.total_transactions = Len(h)
         /\ [info EXCEPT !.vin = None, !.total_transactions = 0]
              = Derived(WithoutRecords(h))

\* C10 witness: a vehicle created and then transferred; the transfer decides.
StateFoldWitness ==
  \E vin \in VINs :
    LET h == get_vehicle_history(vin)
    IN /\ Len(h) = 2
       /\ heap[h[1]].type = "VEHICLE_CREATED"
       /\ heap[h[2]].type = "OWNERSHIP_TRANSFER"
       /\ get_vehicle_info(vin).current_owner = Some("buyer_2")

\* The transaction carries a mileage that get_latest_mileage reads.
CarriesMileage(tx) ==
  \/ tx.type = "VEHICLE_CREATED" /\ "initial_mileage" \in DOMAIN tx.payload
  \/ tx.type = "MILEAGE_UPDATE" /\ "new_mileage" \in DOMAIN tx.payload

MileageOf(tx) ==
  IF tx.type = "VEHICLE_CREATED" THEN tx.payload["initial_mileage"]
  ELSE tx.payload["new_mileage"]

\* latest_mileage(v) is the value of the last transaction of history(v) that
\* carries one, None if none does.
LastWriteWins ==
  \A vin \in KnownVins :
    LET h == get_vehicle_history(vin)
        carriers == {i \in 1..Len(h) : CarriesMileage(heap[h[i]])}
    IN get_latest_mileage(vin) =
         IF carriers = {} THEN None
         ELSE Some(MileageOf(heap[h[Greatest(carriers)]]))

\* The pool holds one transaction of the vehicle and it is t, a MILEAGE_UPDATE
\* with a new_mileage below the latest mileage of the vehicle.
PendingRollback(vin, t) ==
  /\ {i \in 1..Len(transactions) : heap[transactions[i]].vin = vin} # {}
  /\ \A i \in 1..Len(transactions) :
       heap[transactions[i]].vin = vin => transactions[i] = t
  /\ heap[t].type = "MILEAGE_UPDATE"
  /\ "new_mileage" \in DOMAIN heap[t].payload
  /\ get_latest_mileage(vin) # None
  /\ heap[t].payload["new_mileage"] < Value(get_latest_mileage(vin))

\* No sealed transaction of the vehicle that carries a mileage has a timestamp
\* later than that of t.
NotBeforeSealedMileage(vin, t) ==
  \A k \in 1..Len(vin_index_get(vin)) :
    CarriesMileage(heap[vin_index_get(vin)[k]]) =>
      heap[vin_index_get(vin)[k]].timestamp <= heap[t].timestamp

\* C11 as claimed: latest_mileage is last-write-wins over history(v), and sealing
\* a submitted MILEAGE_UPDATE whose new_mileage is below the latest mileage is
\* accepted and makes that value the latest mileage.
RollbackAccepted ==
  /\ []LastWriteWins
  /\ [][\A vin \in VINs : \A t \in 1..Len(heap) :
          (chain' # chain /\ PendingRollback(vin, t)) =>
            get_latest_mileage(vin)' = Some(heap[t].payload["new_mileage"])]_vars

\* C11 as amended: latest_mileage is last-write-wins over history(v), and sealing
\* a submitted MILEAGE_UPDATE whose new_mileage is below the latest mileage is
\* accepted; it makes that value the latest mileage if no sealed transaction of
\* the vehicle that carries a mileage has a later timestamp, and leaves the latest
\* mileage as it was otherwise (history is ordered by timestamp, not by sealing).
RollbackAcceptedInTimestampOrder ==
  /\ []LastWriteWins
  /\ [][\A vin \in VINs : \A t \in 1..Len(heap) :
          (chain' # chain /\ PendingRollback(vin, t)) =>
            /\ t \in SealedTxs'
            /\ get_latest_mileage(vin)' =
                 IF NotBeforeSealedMileage(vin, t)
                 THEN Some(heap[t].payload["new_mileage"])
                 ELSE get_latest_mileage(vin)]_vars

\* C11 witness: two MILEAGE_UPDATEs of a vehicle sealed in two blocks, the later
\* one lower, and its value the latest mileage.
RollbackAcceptedWitness ==
  \E vin \in VINs :
    LET h == get_vehicle_history(vin)
    IN /\ Len(h) = 2
       /\ Len(chain) = 3
       /\ chain[2].transactions = <<h[1]>>
       /\ chain[3].transactions = <<h[2]>>
       /\ heap[h[1]].payload = [new_mileage |-> 2]
       /\ heap[h[2]].payload = [new_mileage |-> 0]
       /\ get_latest_mileage(vin) = Some(0)

\* A vehicle_id no transaction carries.
UnknownVin == "UNKNOWN"

\* C12 (unknown vehicle): for every vehicle_id without a transaction in a sealed
\* block, one with pending transactions only included, get_vehicle_history is
\* empty, get_vehicle_info and get_latest_mileage are None and vehicle_exists is
\* false; vehicle_exists(v) holds exactly when get_vehicle_history(v) is not empty.
UnknownVehicle ==
  \A vin \in KnownVins \cup {UnknownVin} :
    /\ SealedOf(vin) = <<>> =>
         /\ get_vehicle_history(vin) = <<>>
         /\ get_vehicle_info(vin) = None
         /\ get_latest_mileage(vin) = None
         /\ ~vehicle_exists(vin)
    /\ vehicle_exists(vin) <=> get_vehicle_history(vin) # <<>>

\* C12 witness: one vehicle has a pending transaction and none sealed, another
\* has a sealed one and exists.
UnknownVehicleWitness ==
  \E vin, other \in VINs :
    /\ \E i \in 1..Len(transactions) : heap[transactions[i]].vin = vin
    /\ SealedOf(vin) = <<>>
    /\ ~vehicle_exists(vin)
    /\ vehicle_exists(other)

\* C13 as claimed (atomic publication): at no point of a create_block that runs
\* beside other threads does a reader find a transaction of a block of the chain
\* missing from the VIN index, or a transaction in the VIN index that no block of
\* the chain holds.
AtomicPublication ==
  /\ \A t \in SealedTxs :
       \E k \in 1..Len(vin_index_get(heap[t].vin)) :
         vin_index_get(heap[t].vin)[k] = t
  /\ \A vin \in DOMAIN vin_index :
       \A k \in 1..Len(vin_index[vin]) : vin_index[vin][k] \in SealedTxs

\* The number of places of the sequence s that hold t.
Count(s, t) == Cardinality({i \in 1..Len(s) : s[i] = t})

\* C14 as claimed (no lost or corrupted submission): once the create_block calls
\* that add_transaction calls were interleaved with have returned, every submitted
\* transaction is exactly once in the pool or in the blocks of the chain, and
\* every block was hashed and indexed with all the transactions it holds.
NoLostSubmission ==
  sealing = NotSealing =>
    /\ \A t \in 1..Len(heap) :
         Count(transactions, t) + Count(chain_txs(Len(chain)), t) = 1
    /\ \A b \in 1..Len(chain) : chain[b].hash = compute_hash(chain[b], heap)
    /\ \A vin \in KnownVins : vin_index_get(vin) = SealedOf(vin)

\* The ROLES table allows the user the event type.
Permitted(user_id, tx_type) ==
  /\ user_id \in DOMAIN USERS
  /\ tx_type \in ROLES[USERS[user_id]]

\* C15 (permission check): create_and_sign_transaction returns a transaction
\* exactly when the actor is registered and the ROLES table allows its role the
\* event type; otherwise (every request of a BUYER included) it raises, no
\* transaction comes to be, and in either case the pool is left as it is.  So
\* every transaction there is was made for a permitted actor and is signed.
PermissionCheck ==
  /\ [](\A t \in 1..Len(heap) :
          /\ Permitted(heap[t].actor_id, heap[t].type)
          /\ heap[t].role = USERS[heap[t].actor_id]
          /\ heap[t].role # "BUYER"
          /\ heap[t].signature # None)
  /\ [][\A user_id \in Actors, tx_type \in TxTypes :
          (ret' # ret /\ CreateAndSign(user_id, RequestVin, tx_type, clock)) =>
            /\ Permitted(user_id, tx_type) <=> ~Raised(ret')
            /\ Raised(ret') => heap' = heap
            /\ transactions' = transactions]_vars

\* C15 witness: a request was refused with PermissionError while the pool holds
\* a transaction that was returned and submitted.
PermissionCheckWitness ==
  /\ ret = Raise("PermissionError")
  /\ Len(transactions) = 1
  /\ heap[transactions[1]].signature # None

\* C16 as claimed (one-time signing): a signature that is set stays as it is;
\* sign_transaction on a transaction that has a signature fails and leaves the
\* signature as it is, and on a transaction without tx_id it fails and sets no
\* signature.
OneTimeSigning ==
  [][/\ \A t \in 1..Len(heap) :
          heap[t].signature # None => heap'[t].signature = heap[t].signature
     /\ \A t \in 1..Len(heap), user_id \in Signers :
          (heap' # heap \/ ret' # ret) /\ SignTransaction(t, user_id) =>
            /\ heap[t].signature # None =>
                 Raised(ret') /\ heap'[t].signature = heap[t].signature
            /\ heap[t].tx_id = None =>
                 Raised(ret') /\ heap'[t].signature = heap[t].signature]_vars

\* C17 (append-only chain): the chain is never empty; a step that is not a
\* create_block leaves the chain as it is, a create_block appends one block behind
\* the blocks there are; and the transactions that blocks hold stay as they are.
AppendOnlyChain ==
  /\ [](Len(chain) >= 1)
  /\ [][/\ (\E nonce \in Nonces : CallCreateBlock(nonce)) =>
            Len(chain') = Len(chain) + 1
        /\ chain' # chain =>
            /\ \E nonce \in Nonces : CallCreateBlock(nonce)
            /\ Len(chain') = Len(chain) + 1
            /\ \A b \in 1..Len(chain) : chain'[b] = chain[b]
        /\ \A t \in SealedTxs : heap'[t] = heap[t]]_vars

\* C17 witness: a chain of three blocks, just validated.
AppendOnlyChainWitness ==
  /\ Len(chain) = 3
  /\ chain[2].transactions # <<>>
  /\ ret # None
  /\ ret.op = "is_chain_valid"

\* C18 (submit's return value): every block's block_number is its 1-based place
\* in the chain; the number add_transaction returned for a transaction is the
\* block_number of the block that holds it once sealed, and while it is pending
\* it is the length of the chain plus one.
SubmitReturnsBlockNumber ==
  /\ \A b \in 1..Len(chain) : chain[b].block_number = b
  /\ Len(receipt) = Len(heap)
  /\ \A b \in 1..Len(chain) : \A i \in 1..Len(chain[b].transactions) :
       receipt[chain[b].transactions[i]] = chain[b].block_number
  /\ \A i \in 1..Len(transactions) : receipt[transactions[i]] = Len(chain) + 1

\* C18 witness: transactions submitted before and after a sealing, both sealed,
\* with the numbers 2 and 3 returned.
SubmitReturnsBlockNumberWitness ==
  /\ Len(chain) = 3
  /\ receipt = <<2, 3>>
  /\ chain[2].transactions = <<1>>
  /\ chain[3].transactions = <<2>>

\* C20 (rebuild is idempotent and counts): a rebuild_index_from_chain returns the
\* number of distinct vehicle_ids of the transactions in blocks, whatever was
\* queried before, and a second call right after it leaves the index it finds and
\* returns the same number.
RebuildIdempotent ==
  [][(ret'.op = "rebuild_index_from_chain" /\ CallRebuildIndex) =>
       /\ ret'.returned = Cardinality({heap[t].vin : t \in SealedTxs})
       /\ rebuild_index_from_chain(vin_index', chain', heap') =
            [vin_index |-> vin_index', returned |-> ret'.returned]]_vars

\* C20 witness: a rebuild returned 2 for two vehicles in blocks.
RebuildIdempotentWitness ==
  /\ ret # None
  /\ ret.op = "rebuild_index_from_chain"
  /\ ret.returned = 2
  /\ Cardinality({heap[t].vin : t \in SealedTxs}) = 2
  /\ Cardinality(DOMAIN vin_index) = 2
  /\ transactions = <<>>

\* The indices i of range(1, len(self.chain)), counted from 0 as the code counts
\* them, at which the stored hash differs from the recomputed one or the
\* previous_hash differs from the stored hash of the block before.
OffendingIndices ==
  {i \in 1..(Len(chain) - 1) :
     \/ chain[i + 1].hash # compute_hash(chain[i + 1], heap)
     \/ chain[i + 1].previous_hash # chain[i].hash}

MileageQueriesAgree ==
  \A vin \in VINs :
    get_vehicle_history(vin) # <<>> =>
      get_vehicle_info(vin).latest_mileage = get_latest_mileage(vin)

====
